---- MODULE Spec2Model ----
(***************************************************************************)
(* Model of the CRT simulator backend (src/backend): the parameter         *)
(* catalog (crt_parameters.py), the trajectory engine (electron_motion.py),*)
(* the Lissajous signal generator (lissajous_generator.py) and the request *)
(* handlers that own the process-wide state (app.py).                      *)
(*                                                                         *)
(* Numbers.  Python floats are modelled by exact real numbers of the form  *)
(* (n/d)*sqrt(r), kept in canonical form (d > 0, gcd(n,d) = 1, r           *)
(* squarefree, r = 1 when n = 0), so that math.sqrt and math.sin are       *)
(* modelled by their real values and not by the identity.  Floating-point  *)
(* rounding is not modelled.                                               *)
(*                                                                         *)
(* Units.  Volts; lengths in millimetres (0.04 m = 40); charge in          *)
(* elementary charges (CARGA_ELECTRON = -1); mass in electron masses       *)
(* (MASA_ELECTRON = 1); animation time in seconds; frequency in hertz;     *)
(* angles in units of pi/4 radian (PI = 4), the grid on which math.sin has *)
(* the closed-form values 0, +-sqrt(2)/2, +-1.                             *)
(***************************************************************************)
EXTENDS Integers, Sequences, FiniteSets, TLC

----------------------------------------------------------------------------
(* Exact real arithmetic on numbers (n/d)*sqrt(r).                         *)

AbsInt(x) == IF x < 0 THEN -x ELSE x

RECURSIVE GCD(_, _)
GCD(a, b) == IF b = 0 THEN a ELSE GCD(b, a % b)

RECURSIVE MayorCuadrado(_, _, _)
\* the largest k >= best with k*k dividing x, searching upward from k
MayorCuadrado(x, k, best) ==
    IF k * k > x THEN best
    ELSE MayorCuadrado(x, k + 1, IF x % (k * k) = 0 THEN k ELSE best)

\* the rational n/d, d # 0, in canonical form
Q(n, d) ==
    LET g == GCD(AbsInt(n), AbsInt(d))
        s == IF d < 0 THEN -1 ELSE 1
    IN  [n |-> (s * n) \div g, d |-> (s * d) \div g, r |-> 1]

Z(n) == [n |-> n, d |-> 1, r |-> 1]

\* the real (n/d)*sqrt(r) with r already squarefree, in canonical form
Surd(n, d, r) ==
    IF n = 0 THEN Z(0) ELSE [Q(n, d) EXCEPT !.r = r]

IsZero(a) == a.n = 0
Sign(a) == IF a.n > 0 THEN 1 ELSE IF a.n < 0 THEN -1 ELSE 0
Neg(a) == [a EXCEPT !.n = -a.n]
Abs(a) == [a EXCEPT !.n = AbsInt(a.n)]

Mul(a, b) ==
    LET g  == GCD(a.r, b.r)
        an == a.n * g
        g1 == GCD(AbsInt(an), b.d)
        g2 == GCD(AbsInt(b.n), a.d)
    IN  IF a.n = 0 \/ b.n = 0 THEN Z(0)
        ELSE Surd((an \div g1) * (b.n \div g2),
                  (a.d \div g2) * (b.d \div g1),
                  (a.r \div g) * (b.r \div g))

\* 1/a for a # 0:  d/(n*sqrt(r)) = d*sqrt(r)/(n*r)
Inv(a) == Surd(Sign(a) * a.d, AbsInt(a.n) * a.r, a.r)

Div(a, b) == Mul(a, Inv(b))

\* a + b, defined when both are multiples of the same square root
Add(a, b) ==
    IF a.n = 0 THEN b
    ELSE IF b.n = 0 THEN a
    ELSE LET g == GCD(a.d, b.d)
         IN  Surd(a.n * (b.d \div g) + b.n * (a.d \div g),
                  (a.d \div g) * b.d, a.r)

Sub(a, b) == Add(a, Neg(b))

\* |a| <= |b|, by comparing squares
AbsLeq(a, b) ==
    a.n * a.n * a.r * b.d * b.d <= b.n * b.n * b.r * a.d * a.d

Leq(a, b) ==
    IF Sign(a) # Sign(b) THEN Sign(a) < Sign(b)
    ELSE IF Sign(a) >= 0 THEN AbsLeq(a, b)
    ELSE AbsLeq(b, a)

Lt(a, b) == ~Leq(b, a)

Max2(a, b) == IF Lt(a, b) THEN b ELSE a
Min2(a, b) == IF Lt(b, a) THEN b ELSE a

\* a ** 2
Pow2(a) == Mul(a, a)

\* math.sqrt of a rational x >= 0:  sqrt(p/q) = sqrt(p*q)/q
Sqrt(x) ==
    LET m == x.n * x.d
        k == MayorCuadrado(m, 1, 1)
    IN  Surd(k, x.d, m \div (k * k))

----------------------------------------------------------------------------
(* Python exceptions: a function that may raise evaluates either to        *)
(* Ret(value) or to Raise(message, offending value).                       *)

Ret(x) == [lanzada |-> FALSE, ret |-> x]
Raise(msg, v) == [lanzada |-> TRUE, mensaje |-> msg, valor |-> v]
\* str(e) of a caught exception: the message and the value formatted into it
StrExc(e) == [mensaje |-> e.mensaje, valor |-> e.valor]

----------------------------------------------------------------------------
(* crt_parameters.py: constants and range predicates.                      *)

CARGA_ELECTRON == -1
MASA_ELECTRON == 1

TAMANO_PANTALLA == 200
ANCHO_PANTALLA == TAMANO_PANTALLA
ALTO_PANTALLA == TAMANO_PANTALLA

ANCHO_PLACAS_VERTICALES == 40
SEPARACION_PLACAS_VERTICALES == 15
ANCHO_PLACAS_HORIZONTALES == 60
SEPARACION_PLACAS_HORIZONTALES == 15

DISTANCIA_PLACAS_VERTICALES_A_HORIZONTALES == 30
DISTANCIA_PLACAS_HORIZONTALES_A_PANTALLA == 150

VOLTAJE_ACELERACION_MIN == 500
VOLTAJE_ACELERACION_MAX == 5000
VOLTAJE_ACELERACION_DEFAULT == 2000

VOLTAJE_VERTICAL_MIN == -200
VOLTAJE_VERTICAL_MAX == 200
VOLTAJE_VERTICAL_DEFAULT == 0

VOLTAJE_HORIZONTAL_MIN == -200
VOLTAJE_HORIZONTAL_MAX == 200
VOLTAJE_HORIZONTAL_DEFAULT == 0

TIEMPO_PERSISTENCIA_MIN == Q(1, 10)
TIEMPO_PERSISTENCIA_MAX == Z(5)
TIEMPO_PERSISTENCIA_DEFAULT == Z(1)

validar_voltaje_aceleracion_estricto(voltaje) ==
    /\ Lt(Z(VOLTAJE_ACELERACION_MIN), voltaje)
    /\ Lt(voltaje, Z(VOLTAJE_ACELERACION_MAX))

validar_voltaje_aceleracion(voltaje) ==
    /\ Leq(Z(VOLTAJE_ACELERACION_MIN), voltaje)
    /\ Leq(voltaje, Z(VOLTAJE_ACELERACION_MAX))

validar_voltaje_vertical(voltaje) ==
    /\ Leq(Z(VOLTAJE_VERTICAL_MIN), voltaje)
    /\ Leq(voltaje, Z(VOLTAJE_VERTICAL_MAX))

\* every horizontal voltage accepted
validar_voltaje_horizontal_sin_limite(voltaje) == TRUE

validar_voltaje_horizontal(voltaje) ==
    /\ Leq(Z(VOLTAJE_HORIZONTAL_MIN), voltaje)
    /\ Leq(voltaje, Z(VOLTAJE_HORIZONTAL_MAX))

validar_tiempo_persistencia(tiempo) ==
    /\ Leq(TIEMPO_PERSISTENCIA_MIN, tiempo)
    /\ Leq(tiempo, TIEMPO_PERSISTENCIA_MAX)

----------------------------------------------------------------------------
(* electron_motion.py: the trajectory engine.                              *)

calcular_velocidad_inicial(voltaje_aceleracion) ==
    IF ~validar_voltaje_aceleracion(voltaje_aceleracion)
    THEN Raise("Voltaje de aceleracion fuera de rango", voltaje_aceleracion)
    ELSE LET energia_cinetica == Mul(Abs(Z(CARGA_ELECTRON)), voltaje_aceleracion)
             x == Div(Mul(Z(2), energia_cinetica), Z(MASA_ELECTRON))
         IN  IF Sign(x) < 0 THEN Raise("math domain error", x)
             ELSE Ret(Sqrt(x))

\* the copy-paste slip: the vertical voltage checked against the acceleration range
calcular_campo_electrico_vertical_rango_aceleracion(voltaje_vertical) ==
    IF ~validar_voltaje_aceleracion(voltaje_vertical)
    THEN Raise("Voltaje vertical fuera de rango", voltaje_vertical)
    ELSE Ret(Div(voltaje_vertical, Z(SEPARACION_PLACAS_VERTICALES)))

calcular_campo_electrico_vertical(voltaje_vertical) ==
    IF ~validar_voltaje_vertical(voltaje_vertical)
    THEN Raise("Voltaje vertical fuera de rango", voltaje_vertical)
    ELSE Ret(Div(voltaje_vertical, Z(SEPARACION_PLACAS_VERTICALES)))

calcular_campo_electrico_horizontal(voltaje_horizontal) ==
    IF ~validar_voltaje_horizontal(voltaje_horizontal)
    THEN Raise("Voltaje horizontal fuera de rango", voltaje_horizontal)
    ELSE Ret(Div(voltaje_horizontal, Z(SEPARACION_PLACAS_HORIZONTALES)))

calcular_aceleracion(campo_electrico) ==
    Div(Mul(Z(CARGA_ELECTRON), campo_electrico), Z(MASA_ELECTRON))

ZeroDivision == Raise("float division by zero", Z(0))

calcular_movimiento_en_placas_verticales(velocidad_inicial, voltaje_vertical) ==
    IF IsZero(velocidad_inicial) THEN ZeroDivision
    ELSE
    LET tiempo_en_placas == Div(Z(ANCHO_PLACAS_VERTICALES), velocidad_inicial)
        campo_vertical == calcular_campo_electrico_vertical(voltaje_vertical)
    IN  IF campo_vertical.lanzada THEN campo_vertical
        ELSE
        LET aceleracion_vertical == calcular_aceleracion(campo_vertical.ret)
        IN  Ret([deflexion |->
                    Mul(Mul(Q(1, 2), aceleracion_vertical), Pow2(tiempo_en_placas)),
                 velocidad_vertical |-> Mul(aceleracion_vertical, tiempo_en_placas),
                 tiempo_en_placas |-> tiempo_en_placas])

\* the vertical drift during the transit of the horizontal plates forgotten
calcular_movimiento_en_placas_horizontales_sin_deriva(velocidad_inicial, velocidad_vertical, voltaje_horizontal) ==
    IF IsZero(velocidad_inicial) THEN ZeroDivision
    ELSE
    LET tiempo_en_placas == Div(Z(ANCHO_PLACAS_HORIZONTALES), velocidad_inicial)
        campo_horizontal == calcular_campo_electrico_horizontal(voltaje_horizontal)
    IN  IF campo_horizontal.lanzada THEN campo_horizontal
        ELSE
        LET aceleracion_horizontal == calcular_aceleracion(campo_horizontal.ret)
        IN  Ret([deflexion_horizontal |->
                    Mul(Mul(Q(1, 2), aceleracion_horizontal), Pow2(tiempo_en_placas)),
                 deflexion_vertical_adicional |-> Z(0),
                 velocidad_horizontal |->
                    Mul(aceleracion_horizontal, tiempo_en_placas),
                 tiempo_en_placas |-> tiempo_en_placas])

\* the vertical speed carried into the horizontal deflection: x = v t + (1/2) a t^2
calcular_movimiento_en_placas_horizontales_acoplado(velocidad_inicial, velocidad_vertical, voltaje_horizontal) ==
    IF IsZero(velocidad_inicial) THEN ZeroDivision
    ELSE
    LET tiempo_en_placas == Div(Z(ANCHO_PLACAS_HORIZONTALES), velocidad_inicial)
        campo_horizontal == calcular_campo_electrico_horizontal(voltaje_horizontal)
    IN  IF campo_horizontal.lanzada THEN campo_horizontal
        ELSE
        LET aceleracion_horizontal == calcular_aceleracion(campo_horizontal.ret)
        IN  Ret([deflexion_horizontal |->
                    Add(Mul(velocidad_vertical, tiempo_en_placas),
                        Mul(Mul(Q(1, 2), aceleracion_horizontal),
                            Pow2(tiempo_en_placas))),
                 deflexion_vertical_adicional |->
                    Mul(velocidad_vertical, tiempo_en_placas),
                 velocidad_horizontal |->
                    Mul(aceleracion_horizontal, tiempo_en_placas),
                 tiempo_en_placas |-> tiempo_en_placas])

calcular_movimiento_en_placas_horizontales(velocidad_inicial, velocidad_vertical, voltaje_horizontal) ==
    IF IsZero(velocidad_inicial) THEN ZeroDivision
    ELSE
    LET tiempo_en_placas == Div(Z(ANCHO_PLACAS_HORIZONTALES), velocidad_inicial)
        campo_horizontal == calcular_campo_electrico_horizontal(voltaje_horizontal)
    IN  IF campo_horizontal.lanzada THEN campo_horizontal
        ELSE
        LET aceleracion_horizontal == calcular_aceleracion(campo_horizontal.ret)
        IN  Ret([deflexion_horizontal |->
                    Mul(Mul(Q(1, 2), aceleracion_horizontal), Pow2(tiempo_en_placas)),
                 deflexion_vertical_adicional |->
                    Mul(velocidad_vertical, tiempo_en_placas),
                 velocidad_horizontal |->
                    Mul(aceleracion_horizontal, tiempo_en_placas),
                 tiempo_en_placas |-> tiempo_en_placas])

\* the free flight timed with the axial speed reduced by the vertical speed gained
calcular_movimiento_libre_hasta_pantalla_frenado(velocidad_inicial, velocidad_vertical, velocidad_horizontal) ==
    IF IsZero(velocidad_inicial) THEN ZeroDivision
    ELSE
    LET tiempo_vuelo_libre ==
            Div(Z(DISTANCIA_PLACAS_HORIZONTALES_A_PANTALLA),
                Sub(velocidad_inicial, Abs(velocidad_vertical)))
    IN  Ret([deflexion_vertical_libre |-> Mul(velocidad_vertical, tiempo_vuelo_libre),
             deflexion_horizontal_libre |-> Mul(velocidad_horizontal, tiempo_vuelo_libre),
             tiempo_vuelo_libre |-> tiempo_vuelo_libre])

calcular_movimiento_libre_hasta_pantalla(velocidad_inicial, velocidad_vertical, velocidad_horizontal) ==
    IF IsZero(velocidad_inicial) THEN ZeroDivision
    ELSE
    LET tiempo_vuelo_libre ==
            Div(Z(DISTANCIA_PLACAS_HORIZONTALES_A_PANTALLA), velocidad_inicial)
    IN  Ret([deflexion_vertical_libre |-> Mul(velocidad_vertical, tiempo_vuelo_libre),
             deflexion_horizontal_libre |-> Mul(velocidad_horizontal, tiempo_vuelo_libre),
             tiempo_vuelo_libre |-> tiempo_vuelo_libre])

\* the except branch of calcular_posicion_final_electron
ResultadoError(e) ==
    [error |-> StrExc(e), posicion_x |-> Z(0), posicion_y |-> Z(0),
     dentro_pantalla |-> FALSE]

\* the screen edge itself counted as outside
ResultadoImpacto_borde_fuera(velocidad_inicial, resultado_vertical, tiempo_entre_placas, deflexion_y_entre_placas, resultado_horizontal, resultado_libre) ==
    LET posicion_x_final ==
            Add(resultado_horizontal.deflexion_horizontal,
                resultado_libre.deflexion_horizontal_libre)
        posicion_y_final ==
            Add(Add(Add(resultado_vertical.deflexion, deflexion_y_entre_placas),
                    resultado_horizontal.deflexion_vertical_adicional),
                resultado_libre.deflexion_vertical_libre)
        dentro_pantalla_x == Lt(Abs(posicion_x_final), Q(ANCHO_PANTALLA, 2))
        dentro_pantalla_y == Lt(Abs(posicion_y_final), Q(ALTO_PANTALLA, 2))
    IN  [posicion_x |-> posicion_x_final,
         posicion_y |-> posicion_y_final,
         dentro_pantalla |-> dentro_pantalla_x /\ dentro_pantalla_y,
         velocidad_inicial |-> velocidad_inicial,
         velocidad_final_x |-> resultado_horizontal.velocidad_horizontal,
         velocidad_final_y |-> resultado_vertical.velocidad_vertical,
         tiempo_total |->
            Add(Add(Add(resultado_vertical.tiempo_en_placas, tiempo_entre_placas),
                    resultado_horizontal.tiempo_en_placas),
                resultado_libre.tiempo_vuelo_libre)]

\* Paso 6 and the return of calcular_posicion_final_electron
ResultadoImpacto(velocidad_inicial, resultado_vertical, tiempo_entre_placas, deflexion_y_entre_placas, resultado_horizontal, resultado_libre) ==
    LET posicion_x_final ==
            Add(resultado_horizontal.deflexion_horizontal,
                resultado_libre.deflexion_horizontal_libre)
        posicion_y_final ==
            Add(Add(Add(resultado_vertical.deflexion, deflexion_y_entre_placas),
                    resultado_horizontal.deflexion_vertical_adicional),
                resultado_libre.deflexion_vertical_libre)
        dentro_pantalla_x == Leq(Abs(posicion_x_final), Q(ANCHO_PANTALLA, 2))
        dentro_pantalla_y == Leq(Abs(posicion_y_final), Q(ALTO_PANTALLA, 2))
    IN  [posicion_x |-> posicion_x_final,
         posicion_y |-> posicion_y_final,
         dentro_pantalla |-> dentro_pantalla_x /\ dentro_pantalla_y,
         velocidad_inicial |-> velocidad_inicial,
         velocidad_final_x |-> resultado_horizontal.velocidad_horizontal,
         velocidad_final_y |-> resultado_vertical.velocidad_vertical,
         tiempo_total |->
            Add(Add(Add(resultado_vertical.tiempo_en_placas, tiempo_entre_placas),
                    resultado_horizontal.tiempo_en_placas),
                resultado_libre.tiempo_vuelo_libre)]

calcular_posicion_final_electron(voltaje_aceleracion, voltaje_vertical, voltaje_horizontal) ==
    LET v0 == calcular_velocidad_inicial(voltaje_aceleracion)
    IN  IF v0.lanzada THEN ResultadoError(v0)
        ELSE
        LET velocidad_inicial == v0.ret
            rv == calcular_movimiento_en_placas_verticales(velocidad_inicial,
                                                           voltaje_vertical)
        IN  IF rv.lanzada THEN ResultadoError(rv)
            ELSE
            LET velocidad_vertical == rv.ret.velocidad_vertical
                tiempo_entre_placas ==
                    Div(Z(DISTANCIA_PLACAS_VERTICALES_A_HORIZONTALES), velocidad_inicial)
                deflexion_y_entre_placas == Mul(velocidad_vertical, tiempo_entre_placas)
                rh == calcular_movimiento_en_placas_horizontales(
                          velocidad_inicial, velocidad_vertical, voltaje_horizontal)
            IN  IF rh.lanzada THEN ResultadoError(rh)
                ELSE
                LET rl == calcular_movimiento_libre_hasta_pantalla(
                              velocidad_inicial, velocidad_vertical,
                              rh.ret.velocidad_horizontal)
                IN  IF rl.lanzada THEN ResultadoError(rl)
                    ELSE ResultadoImpacto(velocidad_inicial, rv.ret,
                                          tiempo_entre_placas, deflexion_y_entre_placas,
                                          rh.ret, rl.ret)

----------------------------------------------------------------------------
(* lissajous_generator.py: the signal generator.                           *)

\* math.pi, in units of pi/4 radian
PI == 4

FRECUENCIA_MIN == Q(1, 10)
FRECUENCIA_MAX == Z(10)
FRECUENCIA_DEFAULT == Z(1)

FASE_MIN == Z(0)
FASE_MAX == Z(2 * PI)
FASE_DEFAULT == Z(0)

AMPLITUD_VERTICAL_DEFAULT == 100
AMPLITUD_HORIZONTAL_DEFAULT == 100

\* math.sin at an angle that is a whole number of pi/4 (no value at any other angle)
Sin(x) ==
    LET k == IF x.d = 1 /\ x.r = 1 THEN x.n % (2 * PI) ELSE -1
    IN  CASE k \in {0, 4} -> Z(0)
          [] k \in {1, 3} -> Surd(1, 2, 2)
          [] k = 2        -> Z(1)
          [] k \in {5, 7} -> Surd(-1, 2, 2)
          [] k = 6        -> Z(-1)

validar_frecuencia(frecuencia) ==
    Leq(FRECUENCIA_MIN, frecuencia) /\ Leq(frecuencia, FRECUENCIA_MAX)

validar_fase(fase) ==
    Leq(FASE_MIN, fase) /\ Leq(fase, FASE_MAX)

validar_amplitud_vertical(amplitud) ==
    Leq(amplitud, Min2(Abs(Z(VOLTAJE_VERTICAL_MIN)), Abs(Z(VOLTAJE_VERTICAL_MAX))))

validar_amplitud_horizontal(amplitud) ==
    Leq(amplitud, Min2(Abs(Z(VOLTAJE_HORIZONTAL_MIN)), Abs(Z(VOLTAJE_HORIZONTAL_MAX))))

\* the cosine taken instead of the sine
Sinusoide_coseno(tiempo, frecuencia, fase, amplitud) ==
    Mul(amplitud,
        Sin(Add(Add(Mul(Mul(Z(2 * PI), frecuencia), tiempo), fase), Q(PI, 2))))

\* amplitud * math.sin(2 * math.pi * frecuencia * tiempo + fase)
Sinusoide(tiempo, frecuencia, fase, amplitud) ==
    Mul(amplitud, Sin(Add(Mul(Mul(Z(2 * PI), frecuencia), tiempo), fase)))

\* the signal returned as computed, the clamp forgotten
generar_senal_vertical_sin_recorte(tiempo, frecuencia_vertical, fase_vertical, amplitud_vertical) ==
    IF ~validar_frecuencia(frecuencia_vertical)
    THEN Raise("Frecuencia vertical fuera de rango", frecuencia_vertical)
    ELSE IF ~validar_amplitud_vertical(amplitud_vertical)
    THEN Raise("Amplitud vertical fuera de rango", amplitud_vertical)
    ELSE Ret(Sinusoide(tiempo, frecuencia_vertical, fase_vertical, amplitud_vertical))

generar_senal_vertical(tiempo, frecuencia_vertical, fase_vertical, amplitud_vertical) ==
    IF ~validar_frecuencia(frecuencia_vertical)
    THEN Raise("Frecuencia vertical fuera de rango", frecuencia_vertical)
    ELSE IF ~validar_amplitud_vertical(amplitud_vertical)
    THEN Raise("Amplitud vertical fuera de rango", amplitud_vertical)
    ELSE LET voltaje_vertical ==
                 Sinusoide(tiempo, frecuencia_vertical, fase_vertical, amplitud_vertical)
         IN  Ret(Max2(Z(VOLTAJE_VERTICAL_MIN),
                      Min2(Z(VOLTAJE_VERTICAL_MAX), voltaje_vertical)))

generar_senal_horizontal(tiempo, frecuencia_horizontal, fase_horizontal, amplitud_horizontal) ==
    IF ~validar_frecuencia(frecuencia_horizontal)
    THEN Raise("Frecuencia horizontal fuera de rango", frecuencia_horizontal)
    ELSE IF ~validar_amplitud_horizontal(amplitud_horizontal)
    THEN Raise("Amplitud horizontal fuera de rango", amplitud_horizontal)
    ELSE LET voltaje_horizontal ==
                 Sinusoide(tiempo, frecuencia_horizontal, fase_horizontal,
                           amplitud_horizontal)
         IN  Ret(Max2(Z(VOLTAJE_HORIZONTAL_MIN),
                      Min2(Z(VOLTAJE_HORIZONTAL_MAX), voltaje_horizontal)))

\* an entry whose phases are written in degrees instead of radians
PresetFaseEnGrados(nombre, fv, pv, av, fh, ph, ah, ratio) ==
    [nombre |-> nombre,
     frecuencia_vertical |-> fv, fase_vertical |-> Mul(Z(45), pv),
     amplitud_vertical |-> av,
     frecuencia_horizontal |-> fh, fase_horizontal |-> Mul(Z(45), ph),
     amplitud_horizontal |-> ah,
     ratio |-> ratio]

Preset(nombre, fv, pv, av, fh, ph, ah, ratio) ==
    [nombre |-> nombre,
     frecuencia_vertical |-> fv, fase_vertical |-> pv, amplitud_vertical |-> av,
     frecuencia_horizontal |-> fh, fase_horizontal |-> ph, amplitud_horizontal |-> ah,
     ratio |-> ratio]

\* the catalog; the free-text 'descripcion' of each entry is left out
obtener_presets_lissajous ==
    [linea_diagonal |->
        Preset("Linea Diagonal", Z(1), Z(0), Z(150), Z(1), Z(0), Z(150), "1:1"),
     elipse |->
        Preset("Elipse", Z(1), Z(0), Z(150), Z(1), Q(PI, 4), Z(150), "1:1"),
     circulo |->
        Preset("Circulo", Z(1), Z(0), Z(150), Z(1), Q(PI, 2), Z(150), "1:1"),
     elipse_3pi4 |->
        Preset("Elipse 3pi/4", Z(1), Z(0), Z(150), Z(1), Q(3 * PI, 4), Z(150), "1:1"),
     linea_horizontal |->
        Preset("Linea Horizontal", Z(1), Z(0), Z(150), Z(1), Z(PI), Z(150), "1:1"),
     ocho_vertical |->
        Preset("Ocho Vertical (1:2)", Z(1), Z(0), Z(150), Z(2), Z(0), Z(150), "1:2"),
     ocho |->
        Preset("Ocho Horizontal (2:1)", Z(2), Z(0), Z(150), Z(1), Z(0), Z(150), "2:1"),
     trebol_3_1 |->
        Preset("Trebol (3:1)", Z(3), Z(0), Z(150), Z(1), Z(0), Z(150), "3:1"),
     trebol |->
        Preset("Trebol (1:3)", Z(1), Z(0), Z(150), Z(3), Z(0), Z(150), "1:3"),
     mariposa |->
        Preset("Mariposa (3:2)", Z(3), Z(0), Z(150), Z(2), Q(PI, 2), Z(150), "3:2")]

required_keys ==
    <<"frecuencia_vertical", "fase_vertical", "amplitud_vertical",
      "frecuencia_horizontal", "fase_horizontal", "amplitud_horizontal">>

Claves == {required_keys[i] : i \in DOMAIN required_keys}

\* the first required key that the configuration lacks, as the for loop finds it
PrimeraClaveAusente(config_lissajous) ==
    LET faltan == {i \in DOMAIN required_keys :
                       required_keys[i] \notin DOMAIN config_lissajous}
    IN  required_keys[CHOOSE i \in faltan : \A j \in faltan : i <= j]

\* the except branch of generar_voltajes_lissajous
VoltajesError(e, tiempo) ==
    [error |-> StrExc(e), voltaje_vertical |-> Z(0), voltaje_horizontal |-> Z(0),
     tiempo |-> tiempo]

\* the signals evaluated at the time as given, max(0, tiempo) forgotten
generar_voltajes_lissajous_sin_normalizar(tiempo, config_lissajous) ==
    IF ~(Claves \subseteq DOMAIN config_lissajous)
    THEN VoltajesError(Raise("Falta parametro en configuracion",
                             PrimeraClaveAusente(config_lissajous)), tiempo)
    ELSE
    LET vv == generar_senal_vertical(tiempo,
                                     config_lissajous["frecuencia_vertical"],
                                     config_lissajous["fase_vertical"],
                                     config_lissajous["amplitud_vertical"])
        vh == generar_senal_horizontal(tiempo,
                                       config_lissajous["frecuencia_horizontal"],
                                       config_lissajous["fase_horizontal"],
                                       config_lissajous["amplitud_horizontal"])
    IN  IF vv.lanzada THEN VoltajesError(vv, tiempo)
        ELSE IF vh.lanzada THEN VoltajesError(vh, tiempo)
        ELSE [voltaje_vertical |-> vv.ret,
              voltaje_horizontal |-> vh.ret,
              tiempo |-> tiempo,
              debug_info |-> [config_usado |-> config_lissajous,
                              tiempo_original |-> tiempo,
                              tiempo_normalizado |-> tiempo]]

generar_voltajes_lissajous(tiempo, config_lissajous) ==
    IF ~(Claves \subseteq DOMAIN config_lissajous)
    THEN VoltajesError(Raise("Falta parametro en configuracion",
                             PrimeraClaveAusente(config_lissajous)), tiempo)
    ELSE
    LET tiempo_normalizado == Max2(Z(0), tiempo)
        vv == generar_senal_vertical(tiempo_normalizado,
                                     config_lissajous["frecuencia_vertical"],
                                     config_lissajous["fase_vertical"],
                                     config_lissajous["amplitud_vertical"])
    IN  IF vv.lanzada THEN VoltajesError(vv, tiempo)
        ELSE
        LET vh == generar_senal_horizontal(tiempo_normalizado,
                                           config_lissajous["frecuencia_horizontal"],
                                           config_lissajous["fase_horizontal"],
                                           config_lissajous["amplitud_horizontal"])
        IN  IF vh.lanzada THEN VoltajesError(vh, tiempo)
            ELSE [voltaje_vertical |-> vv.ret,
                  voltaje_horizontal |-> vh.ret,
                  tiempo |-> tiempo_normalizado,
                  debug_info |-> [config_usado |-> config_lissajous,
                                  tiempo_original |-> tiempo,
                                  tiempo_normalizado |-> tiempo_normalizado]]

\* the validator that actualizar_parametros_lissajous applies to each key
ValidaCampoSinValidar(clave, valor) == TRUE

ValidaCampo(clave, valor) ==
    CASE clave = "frecuencia_vertical"   -> validar_frecuencia(valor)
      [] clave = "fase_vertical"         -> validar_fase(valor)
      [] clave = "amplitud_vertical"     -> validar_amplitud_vertical(valor)
      [] clave = "frecuencia_horizontal" -> validar_frecuencia(valor)
      [] clave = "fase_horizontal"       -> validar_fase(valor)
      [] clave = "amplitud_horizontal"   -> validar_amplitud_horizontal(valor)

\* d[clave] = valor on a copy of the dict d
Asignar(d, clave, valor) ==
    [k \in DOMAIN d \cup {clave} |-> IF k = clave THEN valor ELSE d[k]]

\* one "if key in nuevos_parametros: if validar(...): config[key] = ..." block
ActualizarCampo(config, nuevos_parametros, clave) ==
    IF clave \in DOMAIN nuevos_parametros
    THEN IF ValidaCampo(clave, nuevos_parametros[clave])
         THEN Asignar(config, clave, nuevos_parametros[clave])
         ELSE config
    ELSE config

\* the patch dropped as a whole as soon as one of its fields is invalid
actualizar_parametros_lissajous_todo_o_nada(config_actual, nuevos_parametros) ==
    IF \A k \in Claves \cap DOMAIN nuevos_parametros :
           ValidaCampo(k, nuevos_parametros[k])
    THEN [k \in DOMAIN config_actual \cup (Claves \cap DOMAIN nuevos_parametros) |->
              IF k \in Claves \cap DOMAIN nuevos_parametros
              THEN nuevos_parametros[k] ELSE config_actual[k]]
    ELSE config_actual

\* the result built from the patch alone, the copy of config_actual forgotten
actualizar_parametros_lissajous_solo_parche(config_actual, nuevos_parametros) ==
    LET c0 == <<>>
        c1 == ActualizarCampo(c0, nuevos_parametros, "frecuencia_vertical")
        c2 == ActualizarCampo(c1, nuevos_parametros, "fase_vertical")
        c3 == ActualizarCampo(c2, nuevos_parametros, "amplitud_vertical")
        c4 == ActualizarCampo(c3, nuevos_parametros, "frecuencia_horizontal")
        c5 == ActualizarCampo(c4, nuevos_parametros, "fase_horizontal")
        c6 == ActualizarCampo(c5, nuevos_parametros, "amplitud_horizontal")
    IN  c6

actualizar_parametros_lissajous(config_actual, nuevos_parametros) ==
    LET c0 == config_actual
        c1 == ActualizarCampo(c0, nuevos_parametros, "frecuencia_vertical")
        c2 == ActualizarCampo(c1, nuevos_parametros, "fase_vertical")
        c3 == ActualizarCampo(c2, nuevos_parametros, "amplitud_vertical")
        c4 == ActualizarCampo(c3, nuevos_parametros, "frecuencia_horizontal")
        c5 == ActualizarCampo(c4, nuevos_parametros, "fase_horizontal")
        c6 == ActualizarCampo(c5, nuevos_parametros, "amplitud_horizontal")
    IN  c6

obtener_configuracion_default_lissajous ==
    [frecuencia_vertical |-> FRECUENCIA_DEFAULT,
     fase_vertical |-> FASE_DEFAULT,
     amplitud_vertical |-> Z(AMPLITUD_VERTICAL_DEFAULT),
     frecuencia_horizontal |-> FRECUENCIA_DEFAULT,
     fase_horizontal |-> FASE_DEFAULT,
     amplitud_horizontal |-> Z(AMPLITUD_HORIZONTAL_DEFAULT)]

\* the number rounded up to a whole number instead of truncated
int_hacia_arriba(x) ==
    IF x.n >= 0 THEN (x.n + x.d - 1) \div x.d ELSE -((-x.n) \div x.d)

\* int() of a rational: truncation toward zero
int(x) ==
    IF x.n >= 0 THEN x.n \div x.d ELSE -((-x.n) \div x.d)

\* the list has num_frames entries, the entry of frame k at index k + 1; no entry and
\* no division by fps when num_frames <= 0
generar_secuencia_lissajous(config_lissajous, duracion_segundos, fps) ==
    LET num_frames == int(Mul(duracion_segundos, fps))
        Cuadro(frame) ==
            LET tiempo_actual == Div(Z(frame), fps)
                voltajes == generar_voltajes_lissajous(tiempo_actual, config_lissajous)
            IN  Asignar(Asignar(Asignar(voltajes, "frame", Z(frame)),
                                "tiempo_total", duracion_segundos),
                        "fps", fps)
    IN  [i \in 1 .. num_frames |-> Cuadro(i - 1)]

\* the shorter of the two periods taken instead of the longer
calcular_periodo_lissajous_minimo(frecuencia_vertical, frecuencia_horizontal) ==
    IF IsZero(frecuencia_vertical) \/ IsZero(frecuencia_horizontal) THEN ZeroDivision
    ELSE LET periodo_vertical == Div(Z(1), frecuencia_vertical)
             periodo_horizontal == Div(Z(1), frecuencia_horizontal)
         IN  Ret(Mul(Min2(periodo_vertical, periodo_horizontal), Z(10)))

\* no validation of the frequencies; 1.0 / 0 raises ZeroDivisionError to the caller
calcular_periodo_lissajous(frecuencia_vertical, frecuencia_horizontal) ==
    IF IsZero(frecuencia_vertical) \/ IsZero(frecuencia_horizontal) THEN ZeroDivision
    ELSE LET periodo_vertical == Div(Z(1), frecuencia_vertical)
             periodo_horizontal == Div(Z(1), frecuencia_horizontal)
         IN  Ret(Mul(Max2(periodo_vertical, periodo_horizontal), Z(10)))

----------------------------------------------------------------------------
(* app.py: the process-wide state and the request handlers.                *)
(*                                                                         *)
(* A handler is an operator from the globals g, the request body datos (a  *)
(* dict: a function from keys to values) and the reading ahora of          *)
(* time.time() to the globals it leaves and the response it returns.       *)

VARIABLES
    estado_voltajes,            \* app.py: estado_voltajes
    estado_lissajous,           \* app.py: estado_lissajous
    modo_operacion,             \* app.py: modo_operacion
    tiempo_inicio_animacion,    \* app.py: tiempo_inicio_animacion
    reloj,                      \* time.time(), counted in steps of PasoReloj
    peticion,                   \* the last request handled: [op, datos]
    respuesta,                  \* the response to it: [codigo, cuerpo]
    entrada,                    \* arguments of a direct call of an engine function
    salida,                     \* the value that call returned
    pc                          \* "llamar" before the direct call, "hecho" after

vars == <<estado_voltajes, estado_lissajous, modo_operacion, tiempo_inicio_animacion,
          reloj, peticion, respuesta, entrada, salida, pc>>

varsApp == <<estado_voltajes, estado_lissajous, modo_operacion,
             tiempo_inicio_animacion, reloj, peticion, respuesta>>

varsLlamada == <<entrada, salida, pc>>

\* seconds between two readings of the clock
PasoReloj == Q(5, 4)
\* the clock stops advancing after this many steps
MaxReloj == 1

Ahora == Mul(Z(reloj), PasoReloj)

Globales ==
    [estado_voltajes |-> estado_voltajes,
     estado_lissajous |-> estado_lissajous,
     modo_operacion |-> modo_operacion,
     tiempo_inicio_animacion |-> tiempo_inicio_animacion]

GlobalesIniciales ==
    [estado_voltajes |->
        [voltaje_aceleracion |-> Z(VOLTAJE_ACELERACION_DEFAULT),
         voltaje_vertical |-> Z(VOLTAJE_VERTICAL_DEFAULT),
         voltaje_horizontal |-> Z(VOLTAJE_HORIZONTAL_DEFAULT),
         tiempo_persistencia |-> TIEMPO_PERSISTENCIA_DEFAULT],
     estado_lissajous |-> obtener_configuracion_default_lissajous,
     modo_operacion |-> "manual",
     tiempo_inicio_animacion |-> Z(0)]

\* jsonify(...), status
Respuesta(g, codigo, cuerpo) == [g |-> g, codigo |-> codigo, cuerpo |-> cuerpo]

Fallo(g, codigo, mensaje) ==
    Respuesta(g, codigo, [success |-> FALSE, error |-> [mensaje |-> mensaje]])

FalloValor(g, codigo, mensaje, valor) ==
    Respuesta(g, codigo,
              [success |-> FALSE, error |-> [mensaje |-> mensaje, valor |-> valor]])

\* dict.get(clave, defecto)
Get(d, clave, defecto) == IF clave \in DOMAIN d THEN d[clave] ELSE defecto

actualizar_voltajes_api(g, datos) ==
    LET g0 == [g EXCEPT !.modo_operacion = "manual"]
        Pon(gg, clave) == [gg EXCEPT !.estado_voltajes[clave] = datos[clave]]
        va_dado == "voltaje_aceleracion" \in DOMAIN datos
        vv_dado == "voltaje_vertical" \in DOMAIN datos
        vh_dado == "voltaje_horizontal" \in DOMAIN datos
        tp_dado == "tiempo_persistencia" \in DOMAIN datos
        g1 == IF va_dado THEN Pon(g0, "voltaje_aceleracion") ELSE g0
        g2 == IF vv_dado THEN Pon(g1, "voltaje_vertical") ELSE g1
        g3 == IF vh_dado THEN Pon(g2, "voltaje_horizontal") ELSE g2
        g4 == IF tp_dado THEN Pon(g3, "tiempo_persistencia") ELSE g3
    IN  IF va_dado /\ ~validar_voltaje_aceleracion(datos["voltaje_aceleracion"])
        THEN FalloValor(g0, 400, "Voltaje de aceleracion fuera de rango",
                        datos["voltaje_aceleracion"])
        ELSE IF vv_dado /\ ~validar_voltaje_vertical(datos["voltaje_vertical"])
        THEN FalloValor(g1, 400, "Voltaje vertical fuera de rango",
                        datos["voltaje_vertical"])
        ELSE IF vh_dado /\ ~validar_voltaje_horizontal(datos["voltaje_horizontal"])
        THEN FalloValor(g2, 400, "Voltaje horizontal fuera de rango",
                        datos["voltaje_horizontal"])
        ELSE IF tp_dado /\ ~validar_tiempo_persistencia(datos["tiempo_persistencia"])
        THEN FalloValor(g3, 400, "Tiempo de persistencia fuera de rango",
                        datos["tiempo_persistencia"])
        ELSE Respuesta(g4, 200, [success |-> TRUE, data |-> g4.estado_voltajes,
                                 modo |-> g4.modo_operacion])

calcular_posicion_api(g, datos) ==
    LET voltaje_aceleracion ==
            Get(datos, "voltaje_aceleracion", g.estado_voltajes.voltaje_aceleracion)
        voltaje_vertical ==
            Get(datos, "voltaje_vertical", g.estado_voltajes.voltaje_vertical)
        voltaje_horizontal ==
            Get(datos, "voltaje_horizontal", g.estado_voltajes.voltaje_horizontal)
        resultado == calcular_posicion_final_electron(
                         voltaje_aceleracion, voltaje_vertical, voltaje_horizontal)
    IN  Respuesta(g, 200,
                  [success |-> TRUE, data |-> resultado,
                   voltajes_usados |->
                       [voltaje_aceleracion |-> voltaje_aceleracion,
                        voltaje_vertical |-> voltaje_vertical,
                        voltaje_horizontal |-> voltaje_horizontal]])

configurar_lissajous_api(g, datos, ahora) ==
    LET g1 == [g EXCEPT !.modo_operacion = "lissajous",
                        !.tiempo_inicio_animacion = ahora,
                        !.estado_lissajous =
                            actualizar_parametros_lissajous(g.estado_lissajous, datos)]
    IN  Respuesta(g1, 200, [success |-> TRUE, data |-> g1.estado_lissajous,
                            modo |-> g1.modo_operacion])

\* the vertical phase of the entry copied into both phases
PresetAplicadoFasesIguales(preset) ==
    [k \in Claves |-> IF k = "fase_horizontal" THEN preset["fase_vertical"]
                      ELSE preset[k]]

PresetAplicado(preset) == [k \in Claves |-> preset[k]]

\* the mode switched and the animation restarted before the catalog is consulted,
\* as configurar_lissajous_api orders its steps
aplicar_preset_lissajous_api_modo_antes(g, datos, ahora) ==
    LET presets == obtener_presets_lissajous
        g0 == [g EXCEPT !.modo_operacion = "lissajous",
                        !.tiempo_inicio_animacion = ahora]
    IN  IF "preset" \notin DOMAIN datos \/ datos["preset"] = ""
        THEN Fallo(g0, 400, "No se especifico el preset")
        ELSE IF datos["preset"] \notin DOMAIN presets
        THEN FalloValor(g0, 400, "Preset no encontrado", datos["preset"])
        ELSE LET preset == presets[datos["preset"]]
                 g1 == [g0 EXCEPT !.estado_lissajous = PresetAplicado(preset)]
             IN  Respuesta(g1, 200,
                           [success |-> TRUE, data |-> g1.estado_lissajous,
                            preset_aplicado |-> preset, modo |-> g1.modo_operacion])

aplicar_preset_lissajous_api(g, datos, ahora) ==
    LET presets == obtener_presets_lissajous
    IN  IF "preset" \notin DOMAIN datos \/ datos["preset"] = ""
        THEN Fallo(g, 400, "No se especifico el preset")
        ELSE IF datos["preset"] \notin DOMAIN presets
        THEN FalloValor(g, 400, "Preset no encontrado", datos["preset"])
        ELSE LET preset == presets[datos["preset"]]
                 g1 == [g EXCEPT !.modo_operacion = "lissajous",
                                 !.tiempo_inicio_animacion = ahora,
                                 !.estado_lissajous = PresetAplicado(preset)]
             IN  Respuesta(g1, 200,
                           [success |-> TRUE, data |-> g1.estado_lissajous,
                            preset_aplicado |-> preset, modo |-> g1.modo_operacion])

obtener_voltajes_lissajous_tiempo_real(g, ahora) ==
    IF g.modo_operacion # "lissajous"
    THEN Fallo(g, 400, "No se encuentra en modo Lissajous")
    ELSE
    LET tiempo_actual == Sub(ahora, g.tiempo_inicio_animacion)
        voltajes == generar_voltajes_lissajous(tiempo_actual, g.estado_lissajous)
    IN  IF "error" \in DOMAIN voltajes
        THEN Respuesta(g, 500, [success |-> FALSE, error |-> voltajes.error])
        ELSE
        LET posicion == calcular_posicion_final_electron(
                            g.estado_voltajes.voltaje_aceleracion,
                            voltajes.voltaje_vertical, voltajes.voltaje_horizontal)
        IN  Respuesta(g, 200,
                      [success |-> TRUE,
                       data |-> [voltajes |-> voltajes,
                                 posicion |-> posicion,
                                 tiempo_transcurrido |-> tiempo_actual,
                                 config_lissajous |-> g.estado_lissajous]])

\* whatever mode the request names is taken
cambiar_modo_api_sin_validar(g, datos, ahora) ==
    IF "modo" \notin DOMAIN datos
    THEN Fallo(g, 400, "Modo invalido. Use manual o lissajous")
    ELSE
    LET nuevo_modo == datos["modo"]
        g1 == [g EXCEPT !.modo_operacion = nuevo_modo]
        g2 == IF nuevo_modo = "lissajous"
              THEN [g1 EXCEPT !.tiempo_inicio_animacion = ahora] ELSE g1
    IN  Respuesta(g2, 200,
                  [success |-> TRUE,
                   data |-> [modo |-> g2.modo_operacion,
                             estado_voltajes |-> g2.estado_voltajes,
                             estado_lissajous |-> g2.estado_lissajous]])

cambiar_modo_api(g, datos, ahora) ==
    IF "modo" \notin DOMAIN datos \/ datos["modo"] \notin {"manual", "lissajous"}
    THEN Fallo(g, 400, "Modo invalido. Use manual o lissajous")
    ELSE
    LET nuevo_modo == datos["modo"]
        g1 == [g EXCEPT !.modo_operacion = nuevo_modo]
        g2 == IF nuevo_modo = "lissajous"
              THEN [g1 EXCEPT !.tiempo_inicio_animacion = ahora] ELSE g1
    IN  Respuesta(g2, 200,
                  [success |-> TRUE,
                   data |-> [modo |-> g2.modo_operacion,
                             estado_voltajes |-> g2.estado_voltajes,
                             estado_lissajous |-> g2.estado_lissajous]])

obtener_estado_actual(g, ahora) ==
    Respuesta(g, 200,
              [success |-> TRUE,
               data |-> [modo |-> g.modo_operacion,
                         voltajes |-> g.estado_voltajes,
                         lissajous |-> g.estado_lissajous,
                         tiempo_desde_inicio |->
                             IF g.modo_operacion = "lissajous"
                             THEN Sub(ahora, g.tiempo_inicio_animacion) ELSE Z(0)]])

----------------------------------------------------------------------------
(* The server: requests arrive one at a time, in any order, and the clock  *)
(* advances between them.                                                  *)

\* a dict with the keys of f whose value is not Ausente
Ausente == [ausente |-> TRUE]
Dict(f) == [k \in {k \in DOMAIN f : f[k] # Ausente} |-> f[k]]

\* request bodies of /api/actualizar-voltajes
DatosVoltajes ==
    {[voltaje_aceleracion |-> Z(500), tiempo_persistencia |-> Z(5)],
     [voltaje_aceleracion |-> Z(5000), voltaje_vertical |-> Z(200),
      voltaje_horizontal |-> Z(201)],
     [voltaje_aceleracion |-> Z(499), voltaje_vertical |-> Z(100)],
     [tiempo_persistencia |-> Z(6)]}

\* request bodies of /api/calcular-posicion
DatosPosicion ==
    {<<>>,
     [voltaje_aceleracion |-> Z(499)],
     [voltaje_vertical |-> Z(100), voltaje_horizontal |-> Z(201)]}

\* request bodies of /api/configurar-lissajous
DatosLissajous ==
    {<<>>,
     [frecuencia_vertical |-> Q(1, 10), fase_vertical |-> Z(9)],
     [amplitud_vertical |-> Z(-300), fase_horizontal |-> Z(2 * PI),
      amplitud_horizontal |-> Z(201)],
     [frecuencia_horizontal |-> Z(11), fase_horizontal |-> Z(-1),
      amplitud_horizontal |-> Z(200)]}

\* request bodies of /api/aplicar-preset-lissajous
DatosPreset ==
    {[preset |-> n] : n \in {"circulo", "mariposa", "desconocido", ""}}
        \cup {<<>>}

\* request bodies of /api/cambiar-modo
DatosModo == {[modo |-> m] : m \in {"manual", "lissajous", "automatico"}}

Atender(op, datos, r) ==
    /\ estado_voltajes' = r.g.estado_voltajes
    /\ estado_lissajous' = r.g.estado_lissajous
    /\ modo_operacion' = r.g.modo_operacion
    /\ tiempo_inicio_animacion' = r.g.tiempo_inicio_animacion
    /\ peticion' = [op |-> op, datos |-> datos]
    /\ respuesta' = [codigo |-> r.codigo, cuerpo |-> r.cuerpo]
    /\ UNCHANGED <<reloj, entrada, salida, pc>>

ActualizarVoltajes ==
    \E datos \in DatosVoltajes :
        Atender("actualizar_voltajes", datos, actualizar_voltajes_api(Globales, datos))

CalcularPosicion ==
    \E datos \in DatosPosicion :
        Atender("calcular_posicion", datos, calcular_posicion_api(Globales, datos))

ConfigurarLissajous ==
    \E datos \in DatosLissajous :
        Atender("configurar_lissajous", datos,
                configurar_lissajous_api(Globales, datos, Ahora))

AplicarPreset ==
    \E datos \in DatosPreset :
        Atender("aplicar_preset", datos,
                aplicar_preset_lissajous_api(Globales, datos, Ahora))

VoltajesTiempoReal ==
    Atender("voltajes_tiempo_real", <<>>,
            obtener_voltajes_lissajous_tiempo_real(Globales, Ahora))

CambiarModo ==
    \E datos \in DatosModo :
        Atender("cambiar_modo", datos, cambiar_modo_api(Globales, datos, Ahora))

EstadoActual ==
    Atender("estado_actual", <<>>, obtener_estado_actual(Globales, Ahora))

\* time.time() moves on
Tic ==
    /\ reloj < MaxReloj
    /\ reloj' = reloj + 1
    /\ UNCHANGED <<estado_voltajes, estado_lissajous, modo_operacion,
                   tiempo_inicio_animacion, peticion, respuesta, entrada, salida, pc>>

InitGlobales ==
    /\ estado_voltajes = GlobalesIniciales.estado_voltajes
    /\ estado_lissajous = GlobalesIniciales.estado_lissajous
    /\ modo_operacion = GlobalesIniciales.modo_operacion
    /\ tiempo_inicio_animacion = GlobalesIniciales.tiempo_inicio_animacion
    /\ reloj = 0
    /\ peticion = [op |-> "ninguna", datos |-> <<>>]
    /\ respuesta = [codigo |-> 0, cuerpo |-> <<>>]

Init ==
    /\ InitGlobales
    /\ entrada = <<>>
    /\ salida = <<>>
    /\ pc = "servidor"

Next ==
    \/ ActualizarVoltajes
    \/ CalcularPosicion
    \/ ConfigurarLissajous
    \/ AplicarPreset
    \/ VoltajesTiempoReal
    \/ CambiarModo
    \/ EstadoActual
    \/ Tic

Spec == Init /\ [][Next]_vars

----------------------------------------------------------------------------
(* Direct calls of the engine's functions, the arguments drawn from        *)
(* bounded sets: one call per behaviour.                                   *)

\* 720 V with a deflection of 200 V puts the beam on the edge of the screen
VoltajesAceleracion == {Z(0), Z(499), Z(500), Z(720), Z(2000), Z(5000), Z(5001)}
\* 150 V is the amplitude of the presets
VoltajesDeflexion ==
    {Z(-201), Z(-200), Z(-150), Z(-100), Z(0), Z(100), Z(150), Z(200), Z(201)}

InitImpacto ==
    /\ InitGlobales
    /\ entrada \in [voltaje_aceleracion : VoltajesAceleracion,
                    voltaje_vertical : VoltajesDeflexion,
                    voltaje_horizontal : VoltajesDeflexion]
    /\ salida = <<>>
    /\ pc = "llamar"

LlamarImpacto ==
    /\ pc = "llamar"
    /\ salida' = calcular_posicion_final_electron(
                     entrada.voltaje_aceleracion, entrada.voltaje_vertical,
                     entrada.voltaje_horizontal)
    /\ pc' = "hecho"
    /\ UNCHANGED <<varsApp, entrada>>

NextImpacto == LlamarImpacto

SpecImpacto == InitImpacto /\ [][NextImpacto]_vars

\* the largest multiple of PasoReloj passed as 'tiempo'
MaxT == 3

TiemposSenal == {Mul(Z(k), PasoReloj) : k \in -2 .. MaxT}

ConfigsSenal ==
    {Dict(f) : f \in
        [frecuencia_vertical : {Ausente, Z(0), Q(1, 10), Z(3), Z(11)},
         fase_vertical : {Ausente, Z(-1), Z(0), Z(1), Z(9)},
         amplitud_vertical : {Ausente, Z(-300), Z(200), Z(201)},
         frecuencia_horizontal : {Ausente, Z(0), Q(1, 10), Z(3), Z(11)},
         fase_horizontal : {Ausente, Z(-1), Z(0), Z(1), Z(9)},
         amplitud_horizontal : {Ausente, Z(-300), Z(200), Z(201)}]}
    \cup {obtener_presets_lissajous[p] : p \in DOMAIN obtener_presets_lissajous}

InitSenal ==
    /\ InitGlobales
    /\ entrada \in [tiempo : TiemposSenal, config_lissajous : ConfigsSenal]
    /\ salida = <<>>
    /\ pc = "llamar"

LlamarSenal ==
    /\ pc = "llamar"
    /\ salida' = generar_voltajes_lissajous(entrada.tiempo, entrada.config_lissajous)
    /\ pc' = "hecho"
    /\ UNCHANGED <<varsApp, entrada>>

NextSenal == LlamarSenal

SpecSenal == InitSenal /\ [][NextSenal]_vars

ConfigsActuales ==
    {obtener_configuracion_default_lissajous,
     PresetAplicado(obtener_presets_lissajous["mariposa"]),
     [frecuencia_vertical |-> Z(2), fase_vertical |-> Z(1),
      amplitud_vertical |-> Z(50), fase_horizontal |-> Z(3)]}

NuevosParametros ==
    {Dict(f) : f \in
        [frecuencia_vertical : {Ausente, Z(0), Q(1, 10), Z(11)},
         fase_vertical : {Ausente, Z(-1), Z(2 * PI), Z(9)},
         amplitud_vertical : {Ausente, Z(-300), Z(200), Z(201)},
         frecuencia_horizontal : {Ausente, Z(10), Q(101, 10)},
         fase_horizontal : {Ausente, Z(PI), Z(9)},
         amplitud_horizontal : {Ausente, Z(0), Z(300)}]}

InitActualizar ==
    /\ InitGlobales
    /\ entrada \in [config_actual : ConfigsActuales,
                    nuevos_parametros : NuevosParametros]
    /\ salida = <<>>
    /\ pc = "llamar"

LlamarActualizar ==
    /\ pc = "llamar"
    /\ salida' = actualizar_parametros_lissajous(entrada.config_actual,
                                                 entrada.nuevos_parametros)
    /\ pc' = "hecho"
    /\ UNCHANGED <<varsApp, entrada>>

NextActualizar == LlamarActualizar

SpecActualizar == InitActualizar /\ [][NextActualizar]_vars

\* the longest animation asked for, in seconds
MaxDuracion == 2

DuracionesSecuencia == {Q(k, 4) : k \in -1 .. 4 * MaxDuracion}

FpsSecuencia == {Z(-10), Z(0), Z(1), Z(2), Z(4), Z(10)}

\* frequencies that keep every frame time of FpsSecuencia on a whole number of pi/4
ConfigsSecuencia ==
    {[frecuencia_vertical |-> Z(5), fase_vertical |-> Z(0),
      amplitud_vertical |-> Z(100), frecuencia_horizontal |-> Z(10),
      fase_horizontal |-> Q(PI, 2), amplitud_horizontal |-> Z(200)],
     [frecuencia_vertical |-> Q(5, 2), fase_vertical |-> Q(PI, 4),
      amplitud_vertical |-> Z(-300), frecuencia_horizontal |-> Z(5),
      fase_horizontal |-> Z(0), amplitud_horizontal |-> Z(150)],
     [frecuencia_vertical |-> Z(11), fase_vertical |-> Z(0),
      amplitud_vertical |-> Z(100), frecuencia_horizontal |-> Z(5),
      fase_horizontal |-> Z(0), amplitud_horizontal |-> Z(100)],
     [frecuencia_vertical |-> Z(5), fase_vertical |-> Z(0),
      amplitud_vertical |-> Z(100), frecuencia_horizontal |-> Z(5),
      fase_horizontal |-> Z(0)]}

InitSecuencia ==
    /\ InitGlobales
    /\ entrada \in [config_lissajous : ConfigsSecuencia,
                    duracion_segundos : DuracionesSecuencia,
                    fps : FpsSecuencia]
    /\ salida = <<>>
    /\ pc = "llamar"

LlamarSecuencia ==
    /\ pc = "llamar"
    /\ salida' = generar_secuencia_lissajous(entrada.config_lissajous,
                                             entrada.duracion_segundos, entrada.fps)
    /\ pc' = "hecho"
    /\ UNCHANGED <<varsApp, entrada>>

NextSecuencia == LlamarSecuencia

SpecSecuencia == InitSecuencia /\ [][NextSecuencia]_vars

FrecuenciasPeriodo ==
    {Z(0), Q(1, 10), Q(1, 2), Z(1), Z(2), Q(5, 2), Z(3), Z(5), Z(10), Z(11)}

InitPeriodo ==
    /\ InitGlobales
    /\ entrada \in [frecuencia_vertical : FrecuenciasPeriodo,
                    frecuencia_horizontal : FrecuenciasPeriodo]
    /\ salida = <<>>
    /\ pc = "llamar"

LlamarPeriodo ==
    /\ pc = "llamar"
    /\ salida' = calcular_periodo_lissajous(entrada.frecuencia_vertical,
                                            entrada.frecuencia_horizontal)
    /\ pc' = "hecho"
    /\ UNCHANGED <<varsApp, entrada>>

NextPeriodo == LlamarPeriodo

SpecPeriodo == InitPeriodo /\ [][NextPeriodo]_vars

----------------------------------------------------------------------------
(* Properties.  The declared ranges are restated here from the constants,  *)
(* independently of the validators of the model.                           *)

Entre(lo, x, hi) == Leq(lo, x) /\ Leq(x, hi)

AceleracionEnRango(v) ==
    Entre(Z(VOLTAJE_ACELERACION_MIN), v, Z(VOLTAJE_ACELERACION_MAX))
VerticalEnRango(v) == Entre(Z(VOLTAJE_VERTICAL_MIN), v, Z(VOLTAJE_VERTICAL_MAX))
HorizontalEnRango(v) == Entre(Z(VOLTAJE_HORIZONTAL_MIN), v, Z(VOLTAJE_HORIZONTAL_MAX))

TripleEnRango(e) ==
    /\ AceleracionEnRango(e.voltaje_aceleracion)
    /\ VerticalEnRango(e.voltaje_vertical)
    /\ HorizontalEnRango(e.voltaje_horizontal)

\* the declared range of each field of a Lissajous configuration
CampoEnRango(clave, valor) ==
    CASE clave \in {"frecuencia_vertical", "frecuencia_horizontal"} ->
             Entre(Q(1, 10), valor, Z(10))
      [] clave \in {"fase_vertical", "fase_horizontal"} ->
             Entre(Z(0), valor, Z(2 * PI))
      [] clave = "amplitud_vertical" -> Leq(valor, Z(VOLTAJE_VERTICAL_MAX))
      [] clave = "amplitud_horizontal" -> Leq(valor, Z(VOLTAJE_HORIZONTAL_MAX))

CamposNumericosImpacto ==
    {"posicion_x", "posicion_y", "velocidad_inicial", "velocidad_final_x",
     "velocidad_final_y", "tiempo_total"}

Fallido(r) == "error" \in DOMAIN r

\* C1 (as the claim states it): when a voltage of the triple is out of its declared
\* range, compute_impact returns a failure that names the offending voltage and
\* carries no numeric result field (no position, velocity or time).
C1_FalloSinCamposNumericos ==
    (pc = "hecho" /\ ~TripleEnRango(entrada)) =>
        /\ Fallido(salida)
        /\ \/ /\ salida.error.mensaje = "Voltaje de aceleracion fuera de rango"
              /\ salida.error.valor = entrada.voltaje_aceleracion
              /\ ~AceleracionEnRango(entrada.voltaje_aceleracion)
           \/ /\ salida.error.mensaje = "Voltaje vertical fuera de rango"
              /\ salida.error.valor = entrada.voltaje_vertical
              /\ ~VerticalEnRango(entrada.voltaje_vertical)
           \/ /\ salida.error.mensaje = "Voltaje horizontal fuera de rango"
              /\ salida.error.valor = entrada.voltaje_horizontal
              /\ ~HorizontalEnRango(entrada.voltaje_horizontal)
        /\ DOMAIN salida \cap CamposNumericosImpacto = {}

\* C2: every sample that generar_voltajes_lissajous returns without an error has its
\* vertical voltage within [VOLTAJE_VERTICAL_MIN, VOLTAJE_VERTICAL_MAX] and its
\* horizontal voltage within [VOLTAJE_HORIZONTAL_MIN, VOLTAJE_HORIZONTAL_MAX].
C2_VoltajesAcotados ==
    (pc = "hecho" /\ ~Fallido(salida)) =>
        /\ VerticalEnRango(salida.voltaje_vertical)
        /\ HorizontalEnRango(salida.voltaje_horizontal)

\* a sample whose sinusoid ran past the limit and was clamped onto it
C2_Witness ==
    /\ pc = "hecho"
    /\ ~Fallido(salida)
    /\ entrada.config_lissajous["amplitud_vertical"] = Z(-300)
    /\ salida.voltaje_vertical = Z(VOLTAJE_VERTICAL_MIN)
    /\ salida.voltaje_horizontal = Surd(100, 1, 2)

ClavesFueraDeRango(nuevos) ==
    {k \in Claves \cap DOMAIN nuevos : ~CampoEnRango(k, nuevos[k])}

\* the field k of configuration b is what it is in configuration a
MismoCampo(a, b, k) ==
    /\ k \in DOMAIN a <=> k \in DOMAIN b
    /\ k \in DOMAIN a => a[k] = b[k]

\* C3: a patch with exactly one out-of-range field leaves that field as it is in
\* config_actual, gives every other field of the patch the patch's value, and leaves
\* every field absent from the patch as it is in config_actual.
C3_UnCampoInvalido ==
    (pc = "hecho" /\ Cardinality(ClavesFueraDeRango(entrada.nuevos_parametros)) = 1) =>
        \A k \in Claves :
            IF k \in DOMAIN entrada.nuevos_parametros
                 /\ k \notin ClavesFueraDeRango(entrada.nuevos_parametros)
            THEN k \in DOMAIN salida /\ salida[k] = entrada.nuevos_parametros[k]
            ELSE MismoCampo(entrada.config_actual, salida, k)

\* one invalid field dropped, two valid fields of the same patch applied
C3_Witness ==
    /\ pc = "hecho"
    /\ entrada.config_actual = obtener_configuracion_default_lissajous
    /\ entrada.nuevos_parametros =
           [fase_vertical |-> Z(9), frecuencia_vertical |-> Q(1, 10),
            amplitud_horizontal |-> Z(0)]
    /\ salida["fase_vertical"] = Z(0)
    /\ salida["frecuencia_vertical"] = Q(1, 10)
    /\ salida["amplitud_horizontal"] = Z(0)

\* C4 (as the claim states it): the sample fails whenever one of the six fields is
\* absent from the configuration or outside its declared range, a phase outside
\* [0, 2 pi] included.
C4_FallaSiCampoInvalido ==
    (pc = "hecho"
       /\ \E k \in Claves :
              \/ k \notin DOMAIN entrada.config_lissajous
              \/ ~CampoEnRango(k, entrada.config_lissajous[k])) =>
        Fallido(salida)

\* C5 (as the claim states it): with acceleration 2000 V, vertical 200 V and
\* horizontal 0 V the vertical screen coordinate is positive.
C5_DeflexionPositiva ==
    (pc = "hecho"
       /\ entrada = [voltaje_aceleracion |-> Z(2000), voltaje_vertical |-> Z(200),
                     voltaje_horizontal |-> Z(0)]) =>
        ~Fallido(salida) /\ Sign(salida.posicion_y) > 0

\* C6: for an in-range triple, posicion_y is the sum of the four vertical
\* contributions and posicion_x the sum of the two horizontal ones, every stage time
\* being the stage length over the initial speed.
C6_SumaDeContribuciones ==
    (pc = "hecho" /\ TripleEnRango(entrada)) =>
        LET v   == salida.velocidad_inicial
            t_v == Div(Z(ANCHO_PLACAS_VERTICALES), v)
            t_d == Div(Z(DISTANCIA_PLACAS_VERTICALES_A_HORIZONTALES), v)
            t_h == Div(Z(ANCHO_PLACAS_HORIZONTALES), v)
            t_f == Div(Z(DISTANCIA_PLACAS_HORIZONTALES_A_PANTALLA), v)
            a_y == Div(Mul(Z(CARGA_ELECTRON),
                           Div(entrada.voltaje_vertical,
                               Z(SEPARACION_PLACAS_VERTICALES))),
                       Z(MASA_ELECTRON))
            a_x == Div(Mul(Z(CARGA_ELECTRON),
                           Div(entrada.voltaje_horizontal,
                               Z(SEPARACION_PLACAS_HORIZONTALES))),
                       Z(MASA_ELECTRON))
            v_y == Mul(a_y, t_v)
            v_x == Mul(a_x, t_h)
        IN  /\ ~Fallido(salida)
            /\ salida.posicion_y =
                   Add(Add(Add(Mul(Q(1, 2), Mul(a_y, Mul(t_v, t_v))), Mul(v_y, t_d)),
                           Mul(v_y, t_h)),
                       Mul(v_y, t_f))
            /\ salida.posicion_x =
                   Add(Mul(Q(1, 2), Mul(a_x, Mul(t_h, t_h))), Mul(v_x, t_f))

\* both deflections at work, at the lowest acceleration voltage
C6_Witness ==
    /\ pc = "hecho"
    /\ entrada = [voltaje_aceleracion |-> Z(500), voltaje_vertical |-> Z(100),
                  voltaje_horizontal |-> Z(-200)]
    /\ salida.posicion_y = Q(-208, 3)
    /\ salida.posicion_x = Z(144)

\* C7: with both deflection voltages 0 and the acceleration voltage in [500, 5000],
\* the beam hits the centre: posicion_x = 0, posicion_y = 0, dentro_pantalla true.
C7_SinDeflexion ==
    (pc = "hecho"
       /\ AceleracionEnRango(entrada.voltaje_aceleracion)
       /\ entrada.voltaje_vertical = Z(0)
       /\ entrada.voltaje_horizontal = Z(0)) =>
        /\ ~Fallido(salida)
        /\ salida.posicion_x = Z(0)
        /\ salida.posicion_y = Z(0)
        /\ salida.dentro_pantalla = TRUE

C7_Witness ==
    /\ pc = "hecho"
    /\ entrada = [voltaje_aceleracion |-> Z(5000), voltaje_vertical |-> Z(0),
                  voltaje_horizontal |-> Z(0)]
    /\ salida.dentro_pantalla
    /\ salida.velocidad_inicial = Z(100)

\* C8: for an acceleration voltage in [500, 5000], endpoints included, and in-range
\* deflection voltages, the call succeeds and the initial speed v is the non-negative
\* number with v^2 = 2 |CARGA_ELECTRON| V / MASA_ELECTRON, whatever the deflection
\* voltages.
C8_VelocidadInicial ==
    (pc = "hecho" /\ TripleEnRango(entrada)) =>
        /\ ~Fallido(salida)
        /\ Sign(salida.velocidad_inicial) >= 0
        /\ Mul(salida.velocidad_inicial, salida.velocidad_inicial) =
               Div(Mul(Z(2 * AbsInt(CARGA_ELECTRON)), entrada.voltaje_aceleracion),
                   Z(MASA_ELECTRON))

\* the lower endpoint of the range, with both deflections at their limits
C8_Witness ==
    /\ pc = "hecho"
    /\ entrada = [voltaje_aceleracion |-> Z(VOLTAJE_ACELERACION_MIN),
                  voltaje_vertical |-> Z(VOLTAJE_VERTICAL_MAX),
                  voltaje_horizontal |-> Z(VOLTAJE_HORIZONTAL_MIN)]
    /\ salida.velocidad_inicial = Surd(10, 1, 10)

PresetDesconocido(p) ==
    /\ p.op = "aplicar_preset"
    /\ "preset" \in DOMAIN p.datos
    /\ p.datos["preset"] \notin DOMAIN obtener_presets_lissajous

\* C9: a request to apply a preset whose identifier is not in the catalog is answered
\* with a failure (400, 'Preset no encontrado', or 'No se especifico el preset' for
\* the empty identifier), and leaves the Lissajous configuration, the mode and the
\* animation start time as they were.
C9_PresetDesconocidoNoCambiaNada ==
    [][PresetDesconocido(peticion') =>
          /\ respuesta'.codigo = 400
          /\ respuesta'.cuerpo.success = FALSE
          /\ respuesta'.cuerpo.error.mensaje =
                 (IF peticion'.datos["preset"] = "" THEN "No se especifico el preset"
                  ELSE "Preset no encontrado")
          /\ estado_lissajous' = estado_lissajous
          /\ modo_operacion' = modo_operacion
          /\ tiempo_inicio_animacion' = tiempo_inicio_animacion]_vars

\* an unknown preset refused in manual mode, after the clock has moved on, with a
\* configuration other than the default in place
C9_Witness ==
    /\ PresetDesconocido(peticion)
    /\ peticion.datos["preset"] = "desconocido"
    /\ respuesta.cuerpo.error.mensaje = "Preset no encontrado"
    /\ modo_operacion = "manual"
    /\ estado_lissajous = PresetAplicado(obtener_presets_lissajous["circulo"])
    /\ Lt(tiempo_inicio_animacion, Ahora)

\* C10: whatever requests have been served, the current Lissajous configuration has
\* its six fields, both frequencies in [0.1, 10], both phases in [0, 2 pi] and both
\* amplitudes at most 200.
C10_ConfiguracionValida ==
    /\ DOMAIN estado_lissajous = Claves
    /\ \A k \in Claves : CampoEnRango(k, estado_lissajous[k])

\* a patch with an out-of-range field has just been merged, and a valid field of the
\* same patch is in place
C10_Witness ==
    /\ peticion.op = "configurar_lissajous"
    /\ ClavesFueraDeRango(peticion.datos) # {}
    /\ \E k \in DOMAIN peticion.datos :
           /\ estado_lissajous[k] = peticion.datos[k]
           /\ estado_lissajous[k] # obtener_configuracion_default_lissajous[k]
    /\ respuesta.cuerpo.success = TRUE


\* C11: actualizar_parametros_lissajous with an empty patch returns a configuration
\* with the fields of config_actual and the value of config_actual in each of them.
C11_ParcheVacio ==
    (pc = "hecho" /\ DOMAIN entrada.nuevos_parametros = {}) =>
        /\ DOMAIN salida = DOMAIN entrada.config_actual
        /\ \A k \in DOMAIN salida : salida[k] = entrada.config_actual[k]

\* the empty patch applied to a configuration other than the default
C11_Witness ==
    /\ pc = "hecho"
    /\ entrada.nuevos_parametros = <<>>
    /\ entrada.config_actual = PresetAplicado(obtener_presets_lissajous["mariposa"])
    /\ salida = PresetAplicado(obtener_presets_lissajous["mariposa"])

\* the whole number m with m <= x < m + 1
Piso(x) == CHOOSE m \in -100 .. 100 : Leq(Z(m), x) /\ Lt(x, Z(m + 1))

C13_FalloSinVoltajes ==
    (pc = "hecho" /\ Fallido(salida)) =>
        DOMAIN salida \cap {"voltaje_vertical", "voltaje_horizontal"} = {}

\* a configuration with its six fields, each in its declared range
ConfigValida(c) ==
    /\ Claves \subseteq DOMAIN c
    /\ \A k \in Claves : CampoEnRango(k, c[k])

\* C14: for a valid configuration and a negative time, generar_voltajes_lissajous
\* does not fail and returns the vertical voltage, the horizontal voltage and the
\* time (0) that it returns for the time 0.
C14_TiempoNegativo ==
    (pc = "hecho" /\ ConfigValida(entrada.config_lissajous)
       /\ Lt(entrada.tiempo, Z(0))) =>
        LET en_cero == generar_voltajes_lissajous(Z(0), entrada.config_lissajous)
        IN  /\ ~Fallido(salida)
            /\ ~Fallido(en_cero)
            /\ salida.voltaje_vertical = en_cero.voltaje_vertical
            /\ salida.voltaje_horizontal = en_cero.voltaje_horizontal
            /\ salida.tiempo = Z(0)
            /\ en_cero.tiempo = Z(0)

\* two and a half seconds before the start, where the sinusoids themselves differ
\* from their values at 0
C14_Witness ==
    /\ pc = "hecho"
    /\ entrada.tiempo = Q(-5, 2)
    /\ entrada.config_lissajous =
           [frecuencia_vertical |-> Q(1, 10), fase_vertical |-> Z(1),
            amplitud_vertical |-> Z(200), frecuencia_horizontal |-> Z(3),
            fase_horizontal |-> Z(0), amplitud_horizontal |-> Z(200)]
    /\ salida.voltaje_vertical = Surd(100, 1, 2)
    /\ salida.voltaje_horizontal = Z(0)
    /\ salida.tiempo = Z(0)

\* C15 (as the claim states it): for a configuration whose amplitudes pass
\* validar_amplitud_vertical / validar_amplitud_horizontal (each at most 200), every
\* sample returned has on each axis the unclamped value
\* amplitud * sin(2 pi frecuencia t + fase).
C15_RecorteSinEfecto ==
    (pc = "hecho" /\ ~Fallido(salida)
       /\ Leq(entrada.config_lissajous["amplitud_vertical"], Z(VOLTAJE_VERTICAL_MAX))
       /\ Leq(entrada.config_lissajous["amplitud_horizontal"],
              Z(VOLTAJE_HORIZONTAL_MAX))) =>
        /\ salida.voltaje_vertical =
               Sinusoide(salida.tiempo, entrada.config_lissajous["frecuencia_vertical"],
                         entrada.config_lissajous["fase_vertical"],
                         entrada.config_lissajous["amplitud_vertical"])
        /\ salida.voltaje_horizontal =
               Sinusoide(salida.tiempo,
                         entrada.config_lissajous["frecuencia_horizontal"],
                         entrada.config_lissajous["fase_horizontal"],
                         entrada.config_lissajous["amplitud_horizontal"])

PresetsDelCatalogo ==
    {obtener_presets_lissajous[p] : p \in DOMAIN obtener_presets_lissajous}

\* C16: every entry of the catalog has the six configuration fields, each in its
\* declared range, and generar_voltajes_lissajous does not fail on an entry at any
\* time.
C16_PresetsValidos ==
    /\ \A preset \in PresetsDelCatalogo : ConfigValida(preset)
    /\ (pc = "hecho" /\ entrada.config_lissajous \in PresetsDelCatalogo) =>
           /\ ~Fallido(salida)
           /\ {"voltaje_vertical", "voltaje_horizontal"} \subseteq DOMAIN salida

\* the butterfly sampled where both of its sinusoids are at their minimum
C16_Witness ==
    /\ pc = "hecho"
    /\ entrada.config_lissajous = obtener_presets_lissajous["mariposa"]
    /\ entrada.tiempo = Q(5, 4)
    /\ salida.voltaje_vertical = Z(-150)
    /\ salida.voltaje_horizontal = Z(-150)

\* C17: once the preset "circulo" has been applied, the current configuration has
\* exactly the six fields of the catalog entry with the entry's values, its two
\* amplitudes are equal, its two frequencies are equal, its horizontal phase is its
\* vertical phase plus pi/2, and the mode is 'lissajous'.
C17_PresetCirculo ==
    (peticion.op = "aplicar_preset" /\ peticion.datos = [preset |-> "circulo"]) =>
        /\ respuesta.codigo = 200
        /\ respuesta.cuerpo.success = TRUE
        /\ DOMAIN estado_lissajous = Claves
        /\ \A k \in Claves :
               estado_lissajous[k] = obtener_presets_lissajous["circulo"][k]
        /\ estado_lissajous["amplitud_vertical"] = estado_lissajous["amplitud_horizontal"]
        /\ estado_lissajous["frecuencia_vertical"] =
               estado_lissajous["frecuencia_horizontal"]
        /\ Sub(estado_lissajous["fase_horizontal"], estado_lissajous["fase_vertical"]) =
               Q(PI, 2)
        /\ modo_operacion = "lissajous"

\* the circle applied after the clock has moved on, and the clock moved on again
C17_Witness ==
    /\ peticion.op = "aplicar_preset"
    /\ peticion.datos = [preset |-> "circulo"]
    /\ respuesta.codigo = 200
    /\ estado_lissajous["fase_horizontal"] = Q(PI, 2)
    /\ modo_operacion = "lissajous"
    /\ tiempo_inicio_animacion = PasoReloj

\* C18: in every result without an error, dentro_pantalla is true exactly when
\* |posicion_x| <= ANCHO_PANTALLA / 2 and |posicion_y| <= ALTO_PANTALLA / 2, the edge
\* included (stated as -ANCHO_PANTALLA / 2 <= posicion_x <= ANCHO_PANTALLA / 2).
C18_DentroDePantalla ==
    (pc = "hecho" /\ ~Fallido(salida)) =>
        (salida.dentro_pantalla <=>
            /\ Entre(Q(-ANCHO_PANTALLA, 2), salida.posicion_x, Q(ANCHO_PANTALLA, 2))
            /\ Entre(Q(-ALTO_PANTALLA, 2), salida.posicion_y, Q(ALTO_PANTALLA, 2)))

\* the beam exactly on the left edge of the screen
C18_Witness ==
    /\ pc = "hecho"
    /\ entrada = [voltaje_aceleracion |-> Z(720), voltaje_vertical |-> Z(0),
                  voltaje_horizontal |-> Z(200)]
    /\ salida.posicion_x = Q(-ANCHO_PANTALLA, 2)
    /\ salida.posicion_y = Z(0)
    /\ salida.dentro_pantalla = TRUE

\* C19: in every result without an error, tiempo_total times the initial speed is
\* the sum of the four stage lengths (vertical plates, gap between the plates,
\* horizontal plates, flight to the screen), and tiempo_total is the positive number
\* fixed by the acceleration voltage alone: tiempo_total^2 * 2 |e| V / m = length^2.
C19_TiempoTotal ==
    (pc = "hecho" /\ ~Fallido(salida)) =>
        LET largo == ANCHO_PLACAS_VERTICALES
                       + DISTANCIA_PLACAS_VERTICALES_A_HORIZONTALES
                       + ANCHO_PLACAS_HORIZONTALES
                       + DISTANCIA_PLACAS_HORIZONTALES_A_PANTALLA
        IN  /\ Mul(salida.tiempo_total, salida.velocidad_inicial) = Z(largo)
            /\ Sign(salida.tiempo_total) > 0
            /\ Mul(Mul(salida.tiempo_total, salida.tiempo_total),
                   Div(Mul(Z(2 * AbsInt(CARGA_ELECTRON)), entrada.voltaje_aceleracion),
                       Z(MASA_ELECTRON))) = Z(largo * largo)

\* both deflections at their limits: 280 mm flown at 100 mm per time unit
C19_Witness ==
    /\ pc = "hecho"
    /\ entrada = [voltaje_aceleracion |-> Z(5000), voltaje_vertical |-> Z(-200),
                  voltaje_horizontal |-> Z(200)]
    /\ salida.velocidad_inicial = Z(100)
    /\ salida.tiempo_total = Q(14, 5)

C22_VoltajesAlmacenadosEnRango ==
    /\ DOMAIN estado_voltajes =
           {"voltaje_aceleracion", "voltaje_vertical", "voltaje_horizontal",
            "tiempo_persistencia"}
    /\ AceleracionEnRango(estado_voltajes.voltaje_aceleracion)
    /\ VerticalEnRango(estado_voltajes.voltaje_vertical)
    /\ HorizontalEnRango(estado_voltajes.voltaje_horizontal)
    /\ Entre(Q(1, 10), estado_voltajes.tiempo_persistencia, Z(5))

\* an update refused for its horizontal voltage, the limits of the two other ranges
\* stored by the same request
C22_Witness ==
    /\ peticion.op = "actualizar_voltajes"
    /\ respuesta.codigo = 400
    /\ respuesta.cuerpo.error.mensaje = "Voltaje horizontal fuera de rango"
    /\ estado_voltajes.voltaje_aceleracion = Z(VOLTAJE_ACELERACION_MAX)
    /\ estado_voltajes.voltaje_vertical = Z(VOLTAJE_VERTICAL_MAX)
    /\ estado_voltajes.voltaje_horizontal = Z(VOLTAJE_HORIZONTAL_DEFAULT)

\* elapsed times >= 0 at which the real-time endpoint is asked
TiemposTranscurridos == {Mul(Z(k), PasoReloj) : k \in 0 .. MaxT}

\* the response of the real-time endpoint has a sample and a position, neither with
\* an error
SinErrores(r) ==
    /\ r.codigo = 200
    /\ r.cuerpo.success = TRUE
    /\ ~Fallido(r.cuerpo.data.voltajes)
    /\ ~Fallido(r.cuerpo.data.posicion)
    /\ VerticalEnRango(r.cuerpo.data.voltajes.voltaje_vertical)
    /\ HorizontalEnRango(r.cuerpo.data.voltajes.voltaje_horizontal)

\* C23: in every reachable state whose mode is 'lissajous', the real-time endpoint,
\* asked at any elapsed time >= 0, answers with a voltage sample without an error and
\* an impact position without an error; and so has every answer it has given in that
\* mode.
C23_TiempoRealSinErrores ==
    modo_operacion = "lissajous" =>
        /\ \A t \in TiemposTranscurridos :
               SinErrores(obtener_voltajes_lissajous_tiempo_real(
                              Globales, Add(tiempo_inicio_animacion, t)))
        /\ peticion.op = "voltajes_tiempo_real" => SinErrores(respuesta)

\* the endpoint asked 1.25 s into an animation whose vertical amplitude is -300 V:
\* the sample is clamped to -200 V and the position computed from it
C23_Witness ==
    /\ modo_operacion = "lissajous"
    /\ peticion.op = "voltajes_tiempo_real"
    /\ respuesta.codigo = 200
    /\ estado_lissajous["amplitud_vertical"] = Z(-300)
    /\ respuesta.cuerpo.data.tiempo_transcurrido = PasoReloj
    /\ respuesta.cuerpo.data.voltajes.voltaje_vertical = Z(VOLTAJE_VERTICAL_MIN)
    /\ ~Fallido(respuesta.cuerpo.data.posicion)

\* C24 (as the claim states it): an update-voltages request refused with an
\* out-of-range error leaves the stored voltages and the mode exactly as they were
\* before the request.
C24_RechazoSinEfecto ==
    [][(peticion'.op = "actualizar_voltajes" /\ respuesta'.codigo = 400) =>
          /\ estado_voltajes' = estado_voltajes
          /\ modo_operacion' = modo_operacion]_vars

Modos == {"manual", "lissajous"}

\* this step serves a request of the operation op (the clock does not move)
Servida(op) == reloj' = reloj /\ peticion'.op = op

\* C25: the mode is 'manual' or 'lissajous' in every state; a change-mode request
\* naming another value is refused and leaves the mode and the animation start time
\* as they were; update-voltages leaves the mode 'manual'; configure-lissajous and an
\* accepted apply-preset leave it 'lissajous'; the real-time endpoint asked in manual
\* mode answers with an error and changes no global.
C25_ModoValido ==
    /\ modo_operacion \in Modos
    /\ [][/\ modo_operacion' \in Modos
          /\ (Servida("cambiar_modo") /\ Get(peticion'.datos, "modo", "") \notin Modos) =>
                 /\ respuesta'.codigo = 400
                 /\ respuesta'.cuerpo.success = FALSE
                 /\ modo_operacion' = modo_operacion
                 /\ tiempo_inicio_animacion' = tiempo_inicio_animacion
          /\ Servida("actualizar_voltajes") => modo_operacion' = "manual"
          /\ Servida("configurar_lissajous") => modo_operacion' = "lissajous"
          /\ (Servida("aplicar_preset") /\ respuesta'.codigo = 200) =>
                 modo_operacion' = "lissajous"
          /\ (Servida("voltajes_tiempo_real") /\ modo_operacion = "manual") =>
                 /\ respuesta'.codigo = 400
                 /\ respuesta'.cuerpo.success = FALSE
                 /\ UNCHANGED <<estado_voltajes, estado_lissajous, modo_operacion,
                                tiempo_inicio_animacion>>]_vars

\* the mode 'automatico' refused after the clock has moved on: the mode and the start
\* time of the animation are those of the earlier switch to 'lissajous'
C25_Witness ==
    /\ peticion.op = "cambiar_modo"
    /\ peticion.datos = [modo |-> "automatico"]
    /\ respuesta.codigo = 400
    /\ modo_operacion = "lissajous"
    /\ reloj = 1
    /\ tiempo_inicio_animacion = Z(0)

DeflexionesEnRango == {v \in VoltajesDeflexion : VerticalEnRango(v)}

\* C26: for an in-range triple, posicion_x and velocidad_final_x are what they are
\* with any other in-range vertical voltage, posicion_y and velocidad_final_y are
\* what they are with any other in-range horizontal voltage, and negating one
\* deflection voltage negates the position coordinate of its axis.
C26_EjesIndependientes ==
    (pc = "hecho" /\ TripleEnRango(entrada)) =>
        LET va == entrada.voltaje_aceleracion
            vv == entrada.voltaje_vertical
            vh == entrada.voltaje_horizontal
        IN  /\ ~Fallido(salida)
            /\ \A otro \in DeflexionesEnRango :
                   LET r == calcular_posicion_final_electron(va, otro, vh)
                   IN  /\ r.posicion_x = salida.posicion_x
                       /\ r.velocidad_final_x = salida.velocidad_final_x
            /\ \A otro \in DeflexionesEnRango :
                   LET r == calcular_posicion_final_electron(va, vv, otro)
                   IN  /\ r.posicion_y = salida.posicion_y
                       /\ r.velocidad_final_y = salida.velocidad_final_y
            /\ calcular_posicion_final_electron(va, Neg(vv), vh).posicion_y =
                   Neg(salida.posicion_y)
            /\ calcular_posicion_final_electron(va, vv, Neg(vh)).posicion_x =
                   Neg(salida.posicion_x)

\* both deflections at work: x = -36 mm belongs to (2000 V, -, 200 V) and
\* y = 52/3 mm to (2000 V, -100 V, -)
C26_Witness ==
    /\ pc = "hecho"
    /\ entrada = [voltaje_aceleracion |-> Z(2000), voltaje_vertical |-> Z(-100),
                  voltaje_horizontal |-> Z(200)]
    /\ salida.posicion_x = Z(-36)
    /\ salida.posicion_y = Q(52, 3)
    /\ calcular_posicion_final_electron(Z(2000), Z(200), Z(200)).posicion_x = Z(-36)

\* C27 (as the claim states it): for every triple with its three voltages in their
\* declared ranges, the result has dentro_pantalla true.
C27_SiempreDentro ==
    (pc = "hecho" /\ TripleEnRango(entrada)) =>
        ~Fallido(salida) /\ salida.dentro_pantalla = TRUE

\* C27 (amended): for every triple with its three voltages in their declared ranges,
\* the call succeeds and dentro_pantalla is true exactly when
\* |voltaje_vertical| / voltaje_aceleracion <= 15/52 and
\* |voltaje_horizontal| / voltaje_aceleracion <= 5/18; so the beam is inside for every
\* in-range deflection once the acceleration voltage is at least 720 V, and outside
\* at 500 V with the preset amplitude of 150 V.
C27_DentroSegunCociente ==
    (pc = "hecho" /\ TripleEnRango(entrada)) =>
        /\ ~Fallido(salida)
        /\ salida.dentro_pantalla <=>
               /\ Leq(Div(Abs(entrada.voltaje_vertical), entrada.voltaje_aceleracion),
                      Q(15, 52))
               /\ Leq(Div(Abs(entrada.voltaje_horizontal), entrada.voltaje_aceleracion),
                      Q(5, 18))
        /\ Leq(Z(720), entrada.voltaje_aceleracion) => salida.dentro_pantalla
        /\ (entrada.voltaje_aceleracion = Z(500)
              /\ Abs(entrada.voltaje_vertical) = Z(150)) => ~salida.dentro_pantalla

\* the preset amplitude on the vertical plates at the lowest acceleration voltage:
\* the beam lands 104 mm below the centre, 4 mm off the screen
C27_Witness ==
    /\ pc = "hecho"
    /\ entrada = [voltaje_aceleracion |-> Z(500), voltaje_vertical |-> Z(150),
                  voltaje_horizontal |-> Z(0)]
    /\ salida.posicion_y = Z(-104)
    /\ salida.dentro_pantalla = FALSE

====
